---- MODULE Spec2Model ----
(***************************************************************************)
(* The Dashboard view of src/app/page.tsx: one client component that       *)
(* fetches /data.json on mount, keeps the parsed body in the state hook    *)
(* `data`, and renders either the loading placeholder or the cards and     *)
(* charts derived from the snapshot.                                       *)
(*                                                                         *)
(* JavaScript strings are TLA+ strings (Len, SubSeq and \o act on their    *)
(* characters).  A JavaScript number is a record [t, num, den]: t is       *)
(* "number" (the rational num/den), "NaN", "Infinity" or "undefined".      *)
(* An object used as a mapping is the sequence of its <<key, value>>       *)
(* pairs in Object.entries order.                                          *)
(***************************************************************************)
EXTENDS Integers, Sequences, FiniteSets, TLC

VARIABLES
    data,       \* the state hook: the null value or the parsed body
    dirty,      \* a render pass is scheduled (mount, or a state change)
    renders,    \* render passes completed
    effects,    \* the mount effect is waiting to run after the commit
    fetches,    \* calls of fetch('/data.json') made so far
    chain,      \* where the promise chain fetch -> res.json() -> setData is
    res,        \* the Response the fetch resolved with
    parsed,     \* the value res.json() resolved with
    view        \* what the last render pass returned

vars == <<data, dirty, renders, effects, fetches, chain, res, parsed, view>>

-----------------------------------------------------------------------------
(* Bounds of the model. *)

\* longest label of the label family, in parts
MaxParts == 3
\* longest ethnicity / prescriber document, in members
MaxEntries == 7
\* largest totalPatients of the percentage family
MaxTotal == 16
\* largest single count of the percentage family
MaxCount == 3

-----------------------------------------------------------------------------
(* Palette. *)

COLORS ==
    [cyan |-> "#00d4ff", purple |-> "#a855f7", pink |-> "#ec4899",
     green |-> "#10b981", orange |-> "#f97316", yellow |-> "#fbbf24",
     blue |-> "#3b82f6", red |-> "#ef4444", teal |-> "#14b8a6",
     indigo |-> "#6366f1"]

CHART_COLORS ==
    <<COLORS.cyan, COLORS.purple, COLORS.pink, COLORS.green,
      COLORS.orange, COLORS.yellow, COLORS.blue, COLORS.red,
      COLORS.teal, COLORS.indigo>>

\* CHART_COLORS[i % CHART_COLORS.length], i counted from 0
PaletteColor(i) == CHART_COLORS[(i % Len(CHART_COLORS)) + 1]

-----------------------------------------------------------------------------
(* String.prototype functions the component calls. *)

\* s.indexOf(pat): the first position (from 0) where pat occurs, or -1
indexOf(s, pat) ==
    LET starts == {i \in 0..(Len(s) - Len(pat)) :
                      SubSeq(s, i + 1, i + Len(pat)) = pat}
    IN  IF starts = {} THEN -1
        ELSE CHOOSE i \in starts : \A j \in starts : i <= j

\* s.replace(pat, rep) with a string pattern: the first occurrence only
replace(s, pat, rep) ==
    LET i == indexOf(s, pat)
    IN  IF i = -1 THEN s
        ELSE SubSeq(s, 1, i) \o rep \o SubSeq(s, i + Len(pat) + 1, Len(s))

\* s.split(sep)[0]: the text before the first separator, or all of s
splitFirst(s, sep) ==
    LET i == indexOf(s, sep)
    IN  IF i = -1 THEN s ELSE SubSeq(s, 1, i)

startsWith(s, pat) ==
    Len(pat) <= Len(s) /\ SubSeq(s, 1, Len(pat)) = pat

includes(s, pat) == indexOf(s, pat) # -1

-----------------------------------------------------------------------------
(* JavaScript numbers. *)

Num(n) == [t |-> "number", num |-> n, den |-> 1]
Undefined == [t |-> "undefined", num |-> 0, den |-> 1]
NaN == [t |-> "NaN", num |-> 0, den |-> 1]
Infinity == [t |-> "Infinity", num |-> 0, den |-> 1]

\* a + b on counts: undefined and NaN operands give NaN
Add(a, b) ==
    IF a.t = "number" /\ b.t = "number"
    THEN [t |-> "number", num |-> a.num * b.den + b.num * a.den,
          den |-> a.den * b.den]
    ELSE NaN

\* a / b on non-negative counts: n/0 is Infinity, 0/0 is NaN
Div(a, b) ==
    IF a.t = "number" /\ b.t = "number"
    THEN IF b.num = 0
         THEN (IF a.num = 0 THEN NaN ELSE Infinity)
         ELSE [t |-> "number", num |-> a.num * b.den, den |-> a.den * b.num]
    ELSE NaN

\* a * k for a positive integer k
Times(a, k) ==
    IF a.t = "number" THEN [a EXCEPT !.num = a.num * k]
    ELSE IF a.t = "Infinity" THEN Infinity
    ELSE NaN

RECURSIVE Pow10(_)
Pow10(k) == IF k = 0 THEN 1 ELSE 10 * Pow10(k - 1)

\* the last k decimal digits of n, zero padded
RECURSIVE Digits(_, _)
Digits(n, k) == IF k = 0 THEN "" ELSE Digits(n \div 10, k - 1) \o ToString(n % 10)

\* the decimal text of n / 10^digits
Decimal(n, digits) ==
    IF digits = 0 THEN ToString(n)
    ELSE ToString(n \div Pow10(digits)) \o "." \o Digits(n % Pow10(digits), digits)

\* truncation in place of rounding
Truncated(a, digits) == {(a.num * Pow10(digits)) \div a.den}

\* The scaled integers n with n / 10^digits nearest to a.  The quotient is
\* computed in IEEE-754 doubles, whose rounding error decides an exact tie
\* (23 / 80 * 100 is 28.749999999999996): both neighbours are outcomes.
Nearest(a, digits) ==
    LET scaled == a.num * Pow10(digits)
        q == scaled \div a.den
        r == scaled % a.den
    IN  IF 2 * r < a.den THEN {q}
        ELSE IF 2 * r > a.den THEN {q + 1}
        ELSE {q, q + 1}

\* Number.prototype.toFixed(digits): the set of texts it can return
toFixed(a, digits) ==
    IF a.t = "number" THEN {Decimal(n, digits) : n \in Nearest(a, digits)}
    ELSE IF a.t = "Infinity" THEN {"Infinity"}
    ELSE {"NaN"}

\* en-US digit grouping of a non-negative integer
RECURSIVE Grouped(_)
Grouped(n) ==
    IF n < 1000 THEN ToString(n)
    ELSE Grouped(n \div 1000) \o "," \o Digits(n % 1000, 3)

\* x.toLocaleString() throws a TypeError when x is undefined
toLocaleStringThrows(a) == a.t = "undefined"

\* x.toLocaleString() of a count or a sum of counts, in the en-US locale
toLocaleString(a) ==
    IF a.t = "number" THEN Grouped(a.num \div a.den) ELSE "NaN"

-----------------------------------------------------------------------------
(* Objects used as mappings, and JSON.parse. *)

\* an object value: its Object.entries, or undefined
Obj(entries) == [defined |-> TRUE, entries |-> entries]
NoObj == [defined |-> FALSE, entries |-> <<>>]

\* obj[key]: the value of the own property, or undefined
Get(obj, key) ==
    LET at == {i \in 1..Len(obj.entries) : obj.entries[i][1] = key}
    IN  IF at = {} THEN Undefined
        ELSE Num(obj.entries[CHOOSE i \in at : TRUE][2])

Keys(entries) == [i \in 1..Len(entries) |-> entries[i][1]]

isDigit(c) == c \in {"0", "1", "2", "3", "4", "5", "6", "7", "8", "9"}

\* a canonical numeric string: such keys are the integer keys of an object
isArrayIndex(k) ==
    /\ Len(k) \in 1..9
    /\ \A i \in 1..Len(k) : isDigit(SubSeq(k, i, i))
    /\ Len(k) > 1 => SubSeq(k, 1, 1) # "0"

RECURSIVE toInteger(_)
toInteger(k) ==
    IF k = "" THEN 0
    ELSE 10 * toInteger(SubSeq(k, 1, Len(k) - 1))
         + (CHOOSE d \in 0..9 : ToString(d) = SubSeq(k, Len(k), Len(k)))

\* The property order of the object JSON.parse builds from the members of
\* a JSON object (distinct keys): integer keys in ascending numeric order
\* first, then the other keys in the order of the document.
OwnPropertyOrder(members) ==
    SortSeq(SelectSeq(members, LAMBDA m : isArrayIndex(m[1])),
            LAMBDA a, b : toInteger(a[1]) < toInteger(b[1]))
    \o SelectSeq(members, LAMBDA m : ~isArrayIndex(m[1]))

ParseObject(o) ==
    IF o.defined THEN Obj(OwnPropertyOrder(o.entries)) ELSE NoObj

\* JSON.parse of a body that is JSON text: `value` describes the document,
\* each mapping with its members in document order
JsonParse(value) ==
    [value EXCEPT
        !.genderDistribution = ParseObject(@),
        !.ethnicityDistribution = ParseObject(@),
        !.ageGroups = ParseObject(@),
        !.prescriberStats = ParseObject(@)]

-----------------------------------------------------------------------------
(* The values of the state hook. *)

Contact(defined, home, mobile, none) ==
    [defined |-> defined, homePhone |-> home, mobilePhone |-> mobile,
     noContact |-> none]

\* a value of the given kind with none of the fields of a snapshot
Bare(kind) ==
    [kind |-> kind, totalPatients |-> Undefined,
     genderDistribution |-> NoObj, ethnicityDistribution |-> NoObj,
     ageGroups |-> NoObj, prescriberStats |-> NoObj,
     contactAvailability |-> Contact(FALSE, 0, 0, 0)]

\* useState<DashboardData | null>(null)
NULL == Bare("null")

\* !data: null, or a JSON value such as 0, false or ""
Falsy(d) == d.kind \in {"null", "falsy"}

-----------------------------------------------------------------------------
(* The chart records and the derived percentages. *)

genderData(d) ==
    LET e == d.genderDistribution.entries
    IN  [i \in 1..Len(e) |->
            [name |-> e[i][1], value |-> e[i][2],
             fill |-> IF e[i][1] = "Female" THEN COLORS.pink
                      ELSE IF e[i][1] = "Male" THEN COLORS.cyan
                      ELSE COLORS.purple]]

ageData(d) ==
    LET e == d.ageGroups.entries
    IN  [i \in 1..Len(e) |->
            [name |-> e[i][1], value |-> e[i][2], fill |-> PaletteColor(i - 1)]]

\* entries.slice(0, n)
slice0(entries, n) == SubSeq(entries, 1, IF Len(entries) < n THEN Len(entries) ELSE n)

\* the second pattern cut short: name.replace('White - ', '').replace('Asian', '')
cleanLabelShortPattern(name) == replace(replace(name, "White - ", ""), "Asian", "")

\* name.replace('White - ', '').replace('Asian or Asian British - ', '')
cleanLabel(name) ==
    replace(replace(name, "White - ", ""), "Asian or Asian British - ", "")

ethnicityData(d) ==
    LET e == slice0(d.ethnicityDistribution.entries, 6)
    IN  [i \in 1..Len(e) |->
            [name |-> cleanLabel(e[i][1]), value |-> e[i][2],
             fill |-> PaletteColor(i - 1)]]

\* the key itself, without the split
prescriberLabelWhole(name) == name

\* name.split(',')[0]
prescriberLabel(name) == splitFirst(name, ",")

prescriberData(d) ==
    LET e == slice0(d.prescriberStats.entries, 5)
    IN  [i \in 1..Len(e) |->
            [name |-> prescriberLabel(e[i][1]), patients |-> e[i][2],
             fill |-> PaletteColor(i - 1)]]

\* the values of the two phone records exchanged
contactDataSwapped(d) ==
    <<[name |-> "Mobile Phone", value |-> d.contactAvailability.homePhone,
       fill |-> COLORS.cyan],
      [name |-> "Home Phone", value |-> d.contactAvailability.mobilePhone,
       fill |-> COLORS.purple],
      [name |-> "No Contact", value |-> d.contactAvailability.noContact,
       fill |-> COLORS.pink]>>

contactData(d) ==
    <<[name |-> "Mobile Phone", value |-> d.contactAvailability.mobilePhone,
       fill |-> COLORS.cyan],
      [name |-> "Home Phone", value |-> d.contactAvailability.homePhone,
       fill |-> COLORS.purple],
      [name |-> "No Contact", value |-> d.contactAvailability.noContact,
       fill |-> COLORS.pink]>>

\* ((x / data.totalPatients) * 100).toFixed(digits)
percentOf(x, d, digits) == toFixed(Times(Div(x, d.totalPatients), 100), digits)

femalePercent(d) == percentOf(Get(d.genderDistribution, "Female"), d, 1)
malePercent(d) == percentOf(Get(d.genderDistribution, "Male"), d, 1)
contactRate(d) ==
    percentOf(Add(Num(d.contactAvailability.homePhone),
                  Num(d.contactAvailability.mobilePhone)), d, 1)

\* data.ageGroups['60-74'] + data.ageGroups['75-99'] + data.ageGroups['100+']
over60(d) ==
    Add(Add(Get(d.ageGroups, "60-74"), Get(d.ageGroups, "75-99")),
        Get(d.ageGroups, "100+"))

agingPercent(d) == percentOf(over60(d), d, 0)
noContactPercent(d) == percentOf(Num(d.contactAvailability.noContact), d, 0)

-----------------------------------------------------------------------------
(* One render pass of Dashboard. *)

\* what a render pass returns; only `screen` is set unless it is "Dashboard"
Screen(name) ==
    [screen |-> name,
     genderData |-> <<>>, ageData |-> <<>>, ethnicityData |-> <<>>,
     prescriberData |-> <<>>, contactData |-> <<>>,
     femalePercent |-> "", malePercent |-> "", contactRate |-> "",
     totalCard |-> "", femaleCard |-> "", femaleSub |-> "",
     maleCard |-> "", maleSub |-> "", contactCard |-> "",
     agingDescription |-> "", agingHighlight |-> "",
     gapDescription |-> "", gapHighlight |-> ""]

\* the transformers read a property of undefined: a TypeError
TransformThrows(d) ==
    \/ ~d.genderDistribution.defined
    \/ ~d.ageGroups.defined
    \/ ~d.ethnicityDistribution.defined
    \/ ~d.prescriberStats.defined
    \/ ~d.contactAvailability.defined

\* the returned JSX calls toLocaleString() on undefined: a TypeError
JsxThrows(d) ==
    \/ toLocaleStringThrows(d.totalPatients)
    \/ toLocaleStringThrows(Get(d.genderDistribution, "Female"))
    \/ toLocaleStringThrows(Get(d.genderDistribution, "Male"))

RenderThrows(d) == TransformThrows(d) \/ JsxThrows(d)

\* the dashboard a render pass returns for a snapshot it does not throw on
DashboardViews(d) ==
    {[screen |-> "Dashboard",
      genderData |-> genderData(d), ageData |-> ageData(d),
      ethnicityData |-> ethnicityData(d),
      prescriberData |-> prescriberData(d), contactData |-> contactData(d),
      femalePercent |-> f, malePercent |-> m, contactRate |-> c,
      totalCard |-> toLocaleString(d.totalPatients),
      femaleCard |-> f \o "%",
      femaleSub |-> toLocaleString(Get(d.genderDistribution, "Female")),
      maleCard |-> m \o "%",
      maleSub |-> toLocaleString(Get(d.genderDistribution, "Male")),
      contactCard |-> c \o "%",
      agingDescription |-> a \o "% of patients are over 60 years old, "
                           \o "indicating significant elderly care needs.",
      agingHighlight |-> toLocaleString(over60(d)),
      gapDescription |-> n \o "% of patients have no contact information "
                         \o "on file, a critical communication barrier.",
      gapHighlight |-> toLocaleString(Num(d.contactAvailability.noContact))] :
        f \in femalePercent(d), m \in malePercent(d), c \in contactRate(d),
        a \in agingPercent(d), n \in noContactPercent(d)}

\* Dashboard(): what one call can return ("Threw": it raised instead)
Dashboard(d) ==
    IF Falsy(d) THEN {Screen("Loading")}
    ELSE IF RenderThrows(d) THEN {Screen("Threw")}
    ELSE DashboardViews(d)

-----------------------------------------------------------------------------
(* The responses the server of /data.json can give.  Every mapping of a    *)
(* document lists its members in the order of the JSON text, with distinct *)
(* keys and non-negative integer counts.                                   *)

Snapshot(total, gender, ethnicity, age, prescribers, contact) ==
    [kind |-> "snapshot", totalPatients |-> Num(total),
     genderDistribution |-> Obj(gender), ethnicityDistribution |-> Obj(ethnicity),
     ageGroups |-> Obj(age), prescriberStats |-> Obj(prescribers),
     contactAvailability |-> contact]

DefaultGender == <<<<"Female", 520>>, <<"Male", 480>>>>
DefaultAge ==
    <<<<"0-17", 190>>, <<"18-59", 500>>, <<"60-74", 200>>, <<"75-99", 100>>,
      <<"100+", 10>>>>
DefaultEthnicity ==
    <<<<"White - British", 700>>, <<"Asian or Asian British - Indian", 120>>,
      <<"Not stated", 180>>>>
DefaultPrescribers == <<<<"Smith, John (Dr)", 400>>, <<"Jones", 350>>>>
DefaultContact == Contact(TRUE, 150, 600, 250)

WellFormed ==
    Snapshot(1000, DefaultGender, DefaultEthnicity, DefaultAge,
             DefaultPrescribers, DefaultContact)

\* totals and counts that exercise the percentages
PercentFamily ==
    {Snapshot(t, <<<<"Female", a>>, <<"Male", b>>>>, DefaultEthnicity,
              <<<<"18-59", b>>, <<"60-74", a>>, <<"75-99", b>>, <<"100+", 0>>>>,
              DefaultPrescribers, Contact(TRUE, a, b, a)) :
        t \in 0..MaxTotal, a \in 0..MaxCount, b \in 0..MaxCount}

Injective(s) == \A i, j \in 1..Len(s) : s[i] = s[j] => i = j

\* gender mappings with and without 'Female', 'Male' and a third category
GenderCounts == [Female |-> 520, Male |-> 480, Unknown |-> 7]
GenderFamily ==
    {Snapshot(1000, [i \in 1..Len(s) |-> <<s[i], GenderCounts[s[i]]>>],
              DefaultEthnicity, DefaultAge, DefaultPrescribers, DefaultContact) :
        s \in {q \in UNION {[1..n -> DOMAIN GenderCounts] : n \in 0..3} :
                  Injective(q)}}

\* the members of seq at the positions in S, in their order in seq
RECURSIVE Pick(_, _)
Pick(seq, S) ==
    IF seq = <<>> THEN <<>>
    ELSE Pick(SubSeq(seq, 1, Len(seq) - 1), S)
         \o (IF Len(seq) \in S THEN <<seq[Len(seq)]>> ELSE <<>>)

\* age mappings that lack any of the buckets
AgeFamily ==
    {Snapshot(1000, DefaultGender, DefaultEthnicity, Pick(DefaultAge, S),
              DefaultPrescribers, DefaultContact) :
        S \in SUBSET (1..Len(DefaultAge))}

EthnicityKeys ==
    <<"White - British", "Asian or Asian British - Indian", "Black - African",
      "White - Irish", "Mixed - White and Asian", "Not stated">>
PrescriberKeys ==
    <<"Smith, John (Dr)", "Jones", "Patel, R, MD", ",Locum", "Lee,K", "Nguyen">>

EthnicityKey(i) ==
    IF i <= Len(EthnicityKeys) THEN EthnicityKeys[i]
    ELSE "Other group " \o ToString(i)
PrescriberKey(i) ==
    IF i <= Len(PrescriberKeys) THEN PrescriberKeys[i]
    ELSE "Practice " \o ToString(i) \o ", The"

\* n members: the first n keys rotated by r, the member at position p
\* keyed '10' and the one at position q keyed '9' (position 0: none)
Members(keys, n, r, p, q) ==
    [i \in 1..n |->
        LET k == ((i - 1 + r) % n) + 1
        IN  <<IF i = p THEN "10" ELSE IF i = q THEN "9" ELSE IF keys = "ethnicity" THEN EthnicityKey(k)
              ELSE PrescriberKey(k),
              10 * k + i>>]

\* ethnicity and prescriber mappings of every length, some with keys that
\* are category codes
OrderFamily ==
    {Snapshot(1000, DefaultGender, Members("ethnicity", n, r, p, q), DefaultAge,
              Members("prescriber", n, r, p, q), DefaultContact) :
        n \in 0..MaxEntries, r \in 0..1, p \in 0..MaxEntries, q \in 0..MaxEntries}

LabelParts ==
    {"White - ", "Asian or Asian British - ", "British", "Wh", "ite - ", "Other "}
NameParts == {",", "Smith", " J"}

RECURSIVE Texts(_, _)
Texts(parts, k) ==
    IF k = 0 THEN {""}
    ELSE Texts(parts, k - 1) \union {t \o x : t \in Texts(parts, k - 1), x \in parts}

\* one ethnicity category and one prescriber, with every label of the bound
LabelFamily ==
    {Snapshot(1000, DefaultGender, <<<<l, 1>>>>, DefaultAge,
              DefaultPrescribers, DefaultContact) :
        l \in Texts(LabelParts, MaxParts)}
    \union
    {Snapshot(1000, DefaultGender, DefaultEthnicity, DefaultAge,
              <<<<l, 1>>>>, DefaultContact) :
        l \in Texts(NameParts, MaxParts)}

Snapshots ==
    {WellFormed} \union PercentFamily \union GenderFamily \union AgeFamily
    \union {d \in OrderFamily :
               /\ Injective(Keys(d.ethnicityDistribution.entries))
               /\ Injective(Keys(d.prescriberStats.entries))}
    \union LabelFamily

Response(status, json, value) == [status |-> status, json |-> json, value |-> value]
NoResponse == Response(0, FALSE, NULL)

\* A 200 with a snapshot, with the JSON text null or with the JSON text 0;
\* and for each status a body that is not JSON (an HTML error page) and a
\* JSON object that is no snapshot ({"error": "Not Found"}).
Responses ==
    {Response(200, TRUE, d) : d \in Snapshots \union {NULL, Bare("falsy")}}
    \union
    {Response(s, json, Bare("other")) : s \in {200, 404, 500}, json \in BOOLEAN}

-----------------------------------------------------------------------------
(* The component's life: mount, effect, promise chain, re-render. *)

Init ==
    /\ data = NULL
    /\ dirty = TRUE
    /\ renders = 0
    /\ effects = FALSE
    /\ fetches = 0
    /\ chain = "idle"
    /\ res = NoResponse
    /\ parsed = NULL
    /\ view = Screen("none")

\* useEffect without the dependency array: due after every commit
EffectDueAlways(n) == TRUE

\* useEffect(..., []): the effect is due after the commit of the mount only
EffectDue(n) == n = 0

\* a render pass and its commit; a pass that throws unmounts the tree
Render ==
    /\ dirty
    /\ view.screen # "Threw"
    /\ view' \in Dashboard(data)
    /\ dirty' = FALSE
    /\ renders' = renders + 1
    /\ effects' = (view'.screen # "Threw" /\ EffectDue(renders))
    /\ UNCHANGED <<data, fetches, chain, res, parsed>>

\* the effect: fetch('/data.json'), a GET without a body
RunEffect ==
    /\ effects
    /\ effects' = FALSE
    /\ fetches' = fetches + 1
    /\ chain' = "fetching"
    /\ UNCHANGED <<data, dirty, renders, res, parsed, view>>

\* the fetch promise resolves with a Response, whatever its status
FetchResolves ==
    /\ chain = "fetching"
    /\ \E r \in Responses : res' = r
    /\ chain' = "responded"
    /\ UNCHANGED <<data, dirty, renders, effects, fetches, parsed, view>>

\* the fetch promise rejects (network error); nothing catches it
FetchRejects ==
    /\ chain = "fetching"
    /\ chain' = "networkError"
    /\ UNCHANGED <<data, dirty, renders, effects, fetches, res, parsed, view>>

\* res.text() in place of res.json(): resolves for every body
BodyAlwaysResolves(r) == TRUE

\* res.json() resolves for a body that is JSON text
BodyParses(r) == r.json

\* .then(res => res.json()): resolves with the parsed body, or rejects with
\* a SyntaxError that nothing catches
ResJson ==
    /\ chain = "responded"
    /\ IF BodyParses(res)
       THEN parsed' = JsonParse(res.value) /\ chain' = "parsed"
       ELSE parsed' = parsed /\ chain' = "syntaxError"
    /\ UNCHANGED <<data, dirty, renders, effects, fetches, res, view>>

\* .then(setData): the state is replaced; an unchanged state schedules no
\* render pass
SetData ==
    /\ chain = "parsed"
    /\ data' = parsed
    /\ dirty' = (dirty \/ parsed # data)
    /\ chain' = "done"
    /\ UNCHANGED <<renders, effects, fetches, res, parsed, view>>

Next ==
    \/ Render
    \/ RunEffect
    \/ FetchResolves
    \/ FetchRejects
    \/ ResJson
    \/ SetData

Spec == Init /\ [][Next]_vars

-----------------------------------------------------------------------------
(* Properties. *)

Loading == Falsy(data)
Loaded == ~Falsy(data)

\* the promise chain has come to its end
Settled == chain \in {"done", "networkError", "syntaxError"}

\* the last scheduled render pass has run
Shown == ~dirty /\ renders > 0

Min(a, b) == IF a < b THEN a ELSE b

\* C1 (as stated): in every execution the transition Loading -> Loaded
\* happens exactly once: when the promise chain has come to its end, the
\* view is Loaded.
C1_ExactlyOnce == Settled => Loaded

\* C1 (amended): the transition Loading -> Loaded happens at most once, and
\* only as setData receives the value res.json() resolved with for a body
\* that is JSON text; once Loaded, the state never changes again, so the
\* view never returns to Loading and the state never holds an error value.
C1_AtMostOnce ==
    [][/\ (Loading /\ ~Falsy(data')) =>
              /\ chain = "parsed" /\ chain' = "done"
              /\ res.json
              /\ data' = parsed
       /\ Loaded => data' = data]_vars

C1_Witness == Loaded /\ chain = "done" /\ view.screen = "Dashboard"

\* the fetch failed: a network error, a status outside 200..299, or a body
\* that is not JSON text
FetchFailed ==
    \/ chain = "networkError"
    \/ /\ chain \in {"responded", "parsed", "done", "syntaxError"}
       /\ (res.status \notin 200..299 \/ ~res.json)

\* C2: after each kind of fetch failure the view stays in Loading: setData
\* is not called with the failed response, no transformer runs and nothing
\* but the loading indicator is shown.
C2_FailureStaysLoading ==
    FetchFailed =>
        /\ Loading
        /\ chain # "done"
        /\ view.screen \in {"none", "Loading"}

\* the keys the cards read that the snapshot lacks
Missing(d) ==
    {k \in {"Female", "Male"} : Get(d.genderDistribution, k) = Undefined}
    \union {k \in {"60-74", "75-99", "100+"} : Get(d.ageGroups, k) = Undefined}

\* the snapshot has the fields of a DashboardData but lacks one of the keys
\* the cards read
LacksExpectedKey(d) ==
    /\ ~TransformThrows(d)
    /\ d.totalPatients.t = "number"
    /\ Cardinality(Missing(d)) = 1

\* C3: rendering a loaded snapshot that lacks an expected key does not throw:
\* the affected card shows "NaN%" and the rest of the view is rendered.
C3_MissingKeyRenders ==
    (Loaded /\ Shown /\ LacksExpectedKey(data)) =>
        /\ view.screen = "Dashboard"
        /\ Get(data.genderDistribution, "Female") = Undefined
               => view.femaleCard = "NaN%"
        /\ Get(data.genderDistribution, "Male") = Undefined
               => view.maleCard = "NaN%"
        /\ over60(data) = NaN => startsWith(view.agingDescription, "NaN%")
        /\ Len(view.contactData) = 3

\* C4: a mount issues exactly one fetch of /data.json: never more than one,
\* and one from the moment the mount effect has run, across the re-render
\* that the loaded state causes.
C4_OneFetch ==
    /\ fetches <= 1
    /\ (renders > 0 /\ ~effects) => fetches = 1

C4_Witness == renders = 2 /\ Loaded /\ fetches = 1

\* C5: ethnicityData is the first min(6, size) members of
\* ethnicityDistribution in the order of the JSON document, each with its
\* count as value.
C5_DocumentOrder ==
    (Loaded /\ Shown /\ view.screen = "Dashboard") =>
        LET doc == res.value.ethnicityDistribution.entries
        IN  /\ Len(view.ethnicityData) = Min(6, Len(doc))
            /\ \A i \in 1..Len(view.ethnicityData) :
                  /\ view.ethnicityData[i].value = doc[i][2]
                  /\ view.ethnicityData[i].name = cleanLabel(doc[i][1])

\* name is the part of key before its first comma, or key when it has none
BeforeFirstComma(name, key) ==
    /\ ~includes(name, ",")
    /\ name = key \/ startsWith(key, name \o ",")

\* C6: prescriberData has length min(5, size(prescriberStats)); its i-th
\* record comes from the i-th entry of prescriberStats, and its label is the
\* part of that entry's key before the first comma.
C6_Prescribers ==
    (Loaded /\ Shown /\ view.screen = "Dashboard") =>
        LET e == data.prescriberStats.entries
        IN  /\ Len(view.prescriberData) = Min(5, Len(e))
            /\ \A i \in 1..Len(view.prescriberData) :
                  /\ view.prescriberData[i].patients = e[i][2]
                  /\ BeforeFirstComma(view.prescriberData[i].name, e[i][1])

C6_Witness ==
    /\ view.screen = "Dashboard"
    /\ Len(data.prescriberStats.entries) > 5
    /\ Len(view.prescriberData) = 5
    /\ \E i \in 1..5 : /\ view.prescriberData[i].name = "Patel"
                       /\ data.prescriberStats.entries[i][1] = "Patel, R, MD"

\* C7 (as stated): cleaning a cleaned ethnicity label returns it unchanged.
C7_Idempotent ==
    \A i \in 1..Len(view.ethnicityData) :
        cleanLabel(view.ethnicityData[i].name) = view.ethnicityData[i].name

Literals == {"White - ", "Asian or Asian British - "}

\* at most one of the two literals, as a prefix, then text with neither
PlainLabel(key) ==
    \E p \in Literals \union {""} :
        /\ startsWith(key, p)
        /\ \A l \in Literals : ~includes(SubSeq(key, Len(p) + 1, Len(key)), l)

\* C7 (amended): cleaning a cleaned label returns it unchanged for every
\* label that is at most one of the two literals followed by text that
\* contains neither.
C7_IdempotentOnPlain ==
    (Loaded /\ Shown /\ view.screen = "Dashboard") =>
        \A i \in 1..Len(view.ethnicityData) :
            PlainLabel(data.ethnicityDistribution.entries[i][1]) =>
                cleanLabel(view.ethnicityData[i].name) = view.ethnicityData[i].name

C7_Witness ==
    /\ view.screen = "Dashboard"
    /\ \E i \in 1..Len(view.ethnicityData) :
          /\ data.ethnicityDistribution.entries[i][1]
                 = "Asian or Asian British - British"
          /\ view.ethnicityData[i].name = "British"

\* C8: the cleanup removes the two literals only where they are a prefix:
\* the cleaned label is the end of the label, and a label that starts with
\* neither literal is unchanged.
C8_PrefixOnly ==
    (Loaded /\ Shown /\ view.screen = "Dashboard") =>
        \A i \in 1..Len(view.ethnicityData) :
            LET key == data.ethnicityDistribution.entries[i][1]
                name == view.ethnicityData[i].name
            IN  /\ SubSeq(key, Len(key) - Len(name) + 1, Len(key)) = name
                /\ (\A l \in Literals : ~startsWith(key, l)) => name = key

\* text is the decimal with `digits` decimals nearest to 100 * num / den
RoundedPercent(text, num, den, digits) ==
    \E n \in 0..((100 * num * Pow10(digits)) \div den + 1) :
        /\ text = Decimal(n, digits)
        /\ 2 * (n * den - 100 * num * Pow10(digits)) \in (0 - den)..den

\* C9: with totalPatients > 0, femalePercent, malePercent and contactRate
\* are the percentages of totalPatients rounded to one decimal; 520 and 480
\* of 1000 give "52.0" and "48.0", and 150 + 600 of 1000 give "75.0".
C9_Percentages ==
    (Loaded /\ Shown /\ view.screen = "Dashboard" /\ data.totalPatients.num > 0) =>
        LET total == data.totalPatients.num
            female == Get(data.genderDistribution, "Female").num
            male == Get(data.genderDistribution, "Male").num
            home == data.contactAvailability.homePhone
            mobile == data.contactAvailability.mobilePhone
        IN  /\ RoundedPercent(view.femalePercent, female, total, 1)
            /\ RoundedPercent(view.malePercent, male, total, 1)
            /\ RoundedPercent(view.contactRate, home + mobile, total, 1)
            /\ (total = 1000 /\ female = 520) => view.femalePercent = "52.0"
            /\ (total = 1000 /\ male = 480) => view.malePercent = "48.0"
            /\ (total = 1000 /\ home = 150 /\ mobile = 600)
                   => view.contactRate = "75.0"

C9_Witness ==
    /\ view.screen = "Dashboard"
    /\ data.totalPatients.num = 3
    /\ view.femalePercent = "66.7"
    /\ view.malePercent = "33.3"
    /\ view.contactRate = "100.0"

\* records is one {name, value, fill} per entry, value the entry's count
ChartRecords(records, entries) ==
    /\ Len(records) = Len(entries)
    /\ \A i \in 1..Len(records) :
          /\ DOMAIN records[i] = {"name", "value", "fill"}
          /\ records[i].value = entries[i][2]

ContactEntries(d) ==
    <<<<"Mobile Phone", d.contactAvailability.mobilePhone>>,
      <<"Home Phone", d.contactAvailability.homePhone>>,
      <<"No Contact", d.contactAvailability.noContact>>>>

\* C10 (as stated): each of the five transformers returns records with the
\* fields name, value and fill, value holding the category's count.
C10_AllChartRecords ==
    (Loaded /\ Shown /\ view.screen = "Dashboard") =>
        /\ ChartRecords(view.genderData, data.genderDistribution.entries)
        /\ ChartRecords(view.ageData, data.ageGroups.entries)
        /\ ChartRecords(view.ethnicityData,
                        slice0(data.ethnicityDistribution.entries, 6))
        /\ ChartRecords(view.prescriberData,
                        slice0(data.prescriberStats.entries, 5))
        /\ ChartRecords(view.contactData, ContactEntries(data))

\* C10 (amended): the gender, age, ethnicity and contact transformers
\* return records with the fields name, value and fill, value holding the
\* category's count; the prescriber records have the fields name, patients
\* and fill, patients holding the count.
C10_ChartRecords ==
    (Loaded /\ Shown /\ view.screen = "Dashboard") =>
        /\ ChartRecords(view.genderData, data.genderDistribution.entries)
        /\ ChartRecords(view.ageData, data.ageGroups.entries)
        /\ ChartRecords(view.ethnicityData,
                        slice0(data.ethnicityDistribution.entries, 6))
        /\ ChartRecords(view.contactData, ContactEntries(data))
        /\ \A i \in 1..Len(view.prescriberData) :
              /\ DOMAIN view.prescriberData[i] = {"name", "patients", "fill"}
              /\ view.prescriberData[i].patients
                     = data.prescriberStats.entries[i][2]

C10_Witness ==
    /\ view.screen = "Dashboard"
    /\ Len(view.prescriberData) = 2
    /\ Len(view.genderData) = 3
    /\ view.contactData[1].value = 600

====
